---------------------------- MODULE Spec2Model ----------------------------
(***************************************************************************)
(* build_package.py: the command dispatcher (main, get_args, build_binary) *)
(* and the control-file parser (parse_dsc).                                *)
(*                                                                         *)
(* Text is a sequence of one-character strings, so that startswith, split, *)
(* splitlines, os.path.dirname and os.path.join are computed character by  *)
(* character as the library computes them.                                 *)
(***************************************************************************)
EXTENDS Integers, Sequences, FiniteSets

VARIABLES
    argv,        \* sys.argv: a sequence of arguments
    file_exists, \* whether the file named by the dsc argument can be opened
    content,     \* the text of that file
    pc,          \* the position of the single thread of control
    args,        \* the Namespace get_args returned
    dsc_path,    \* parse_dsc's parameter
    location,    \* build_binary's parameter
    verbose,     \* build_binary's and parse_dsc's parameter
    there,       \* parse_dsc local
    lines,       \* content.splitlines()
    idx,         \* the position of the for loop in lines (1-based)
    found,       \* parse_dsc local
    files,       \* parse_dsc local
    result,      \* what parse_dsc returned to build_binary
    error,       \* the exception that ended the run, "" if none
    exitcode     \* the exit status of the process, -1 while it runs

vars == <<argv, file_exists, content, pc, args, dsc_path, location, verbose,
          there, lines, idx, found, files, result, error, exitcode>>

\* The longest control file of the model, in lines.
MaxLines == 3

-----------------------------------------------------------------------------
(* Text helpers *)

\* the characters str.split() and str.splitlines() treat specially
Whitespace == {" ", "\t", "\n", "\r"}

SLASH == "/"

\* line 29: the section header token 'Checksums-Sha256:'
HEADER == <<"C","h","e","c","k","s","u","m","s","-","S","h","a","2","5","6",":">>

\* str.startswith
StartsWith(s, p) ==
    /\ Len(s) >= Len(p)
    /\ SubSeq(s, 1, Len(p)) = p

EndsWith(s, p) ==
    /\ Len(s) >= Len(p)
    /\ SubSeq(s, Len(s) - Len(p) + 1, Len(s)) = p

RECURSIVE SplitFrom(_, _, _, _)
SplitFrom(s, k, cur, acc) ==
    IF k > Len(s)
    THEN IF cur = <<>> THEN acc ELSE Append(acc, cur)
    ELSE IF s[k] \in Whitespace
         THEN SplitFrom(s, k + 1, <<>>, IF cur = <<>> THEN acc ELSE Append(acc, cur))
         ELSE SplitFrom(s, k + 1, Append(cur, s[k]), acc)

\* line 23: str.split() with no separator: the maximal runs of non-whitespace
Split(s) == SplitFrom(s, 1, <<>>, <<>>)

RECURSIVE SplitLinesFrom(_, _, _, _)
SplitLinesFrom(s, k, cur, acc) ==
    IF k > Len(s)
    THEN IF cur = <<>> THEN acc ELSE Append(acc, cur)
    ELSE IF s[k] = "\r" /\ k < Len(s) /\ s[k + 1] = "\n"
         THEN SplitLinesFrom(s, k + 2, <<>>, Append(acc, cur))
         ELSE IF s[k] \in {"\n", "\r"}
              THEN SplitLinesFrom(s, k + 1, <<>>, Append(acc, cur))
              ELSE SplitLinesFrom(s, k + 1, Append(cur, s[k]), acc)

\* line 21: str.splitlines(): the lines without their terminators; a final
\* terminator opens no further line
SplitLines(s) == SplitLinesFrom(s, 1, <<>>, <<>>)

\* str.rfind('/') + 1: the position of the last slash, 0 if none
LastSlash(p) ==
    IF \E k \in 1..Len(p) : p[k] = SLASH
    THEN CHOOSE k \in 1..Len(p) :
            /\ p[k] = SLASH
            /\ \A m \in (k + 1)..Len(p) : p[m] # SLASH
    ELSE 0

RECURSIVE RStripSlash(_)
RStripSlash(p) ==
    IF p # <<>> /\ p[Len(p)] = SLASH
    THEN RStripSlash(SubSeq(p, 1, Len(p) - 1))
    ELSE p

\* line 19: os.path.dirname (posixpath)
Dirname(p) ==
    LET head == SubSeq(p, 1, LastSlash(p))
    IN  IF head # <<>> /\ (\E k \in 1..Len(head) : head[k] # SLASH)
        THEN RStripSlash(head)
        ELSE head

\* line 24: os.path.join (posixpath) of two components
Join(a, b) ==
    IF StartsWith(b, <<SLASH>>) THEN b
    ELSE IF a = <<>> \/ EndsWith(a, <<SLASH>>) THEN a \o b
    ELSE a \o <<SLASH>> \o b


-----------------------------------------------------------------------------
(* Inputs: the command lines and the control files of the model *)

PROG == <<"b","p">>
OPT_V == <<"-","v">>
OPT_VERBOSE == <<"-","-","v","e","r","b","o","s","e">>
BINARY == <<"b","i","n","a","r","y">>
SOURCE == <<"s","o","u","r","c","e">>

\* control-file paths: in the current directory, in a directory, in the root
Paths == { <<"p">>, <<"d","/","p">>, <<"/","p">> }

Locations == { <<"t">>, <<"/","t">> }

Flags == { <<>>, <<OPT_V>> }

BinaryArgv ==
    { <<PROG>> \o fl \o <<BINARY, d, l>> : fl \in Flags, d \in Paths, l \in Locations }

OtherArgv ==
    { <<PROG>>, <<PROG, OPT_V>>, <<PROG, OPT_VERBOSE>>, <<PROG, SOURCE>>,
      <<PROG, BINARY>>, <<PROG, BINARY, <<"p">> >>,
      <<PROG, BINARY, <<"p">>, <<"t">>, <<"x">> >>,
      <<PROG, BINARY, OPT_V, <<"p">>, <<"t">> >>,
      <<PROG, OPT_VERBOSE, OPT_V, BINARY, <<"p">>, <<"t">> >> }

HeaderLine == HEADER
\* the header token followed by two more tokens on the same line
HeaderLineMore == HEADER \o <<" ","a"," ","f">>
\* a near miss of the header, and an ordinary field line
OtherLine == <<"C","h","e","c","k","s","u","m","s","-","S","h","a","1",":">>
Row1 == <<" ","a"," ","1"," ","f">>
\* a tab and two spaces between the tokens, a name that starts with a slash
Row2 == <<" ","b","\t","2"," "," ","/","g">>
\* a name that holds a slash
Row3 == <<" ","c"," ","3"," ","d","/","g">>
ShortRow == <<" ","a"," ","1">>
LongRow == <<" ","a"," ","1"," ","f"," ","x">>
BlankRow == <<" ","\t">>
TabRow == <<"\t","e"," ","5"," ","h">>

LinePool ==
    { HeaderLine, HeaderLineMore, OtherLine, Row1, Row2, Row3,
      ShortRow, LongRow, BlankRow, TabRow }

FileLines == UNION { [1..n -> LinePool] : n \in 0..MaxLines }

RECURSIVE JoinLines(_)
\* the text of a file whose lines are ls, each ended by a newline
JoinLines(ls) ==
    IF ls = <<>> THEN <<>> ELSE Head(ls) \o <<"\n">> \o JoinLines(Tail(ls))

-----------------------------------------------------------------------------
(* get_args, lines 48-59 *)

NoArgs == [err |-> FALSE, command |-> <<>>, verbose |-> FALSE,
           dsc |-> <<>>, location |-> <<>>]

\* parser.error: the usage message and SystemExit(2)
UsageError == [NoArgs EXCEPT !.err = TRUE]

IsOption(s) == StartsWith(s, <<"-">>)

\* lines 55-57: the 'binary' sub-parser takes exactly two positionals
ParseBinary(rest, v) ==
    IF Len(rest) = 2 /\ ~IsOption(rest[1]) /\ ~IsOption(rest[2])
    THEN { [NoArgs EXCEPT !.command = BINARY, !.verbose = v,
                          !.dsc = rest[1], !.location = rest[2]] }
    ELSE { UsageError }

\* line 54: add_subparsers(dest="command") without required=True. With no
\* sub-command argparse of Python 2 ends with a usage error ("too few
\* arguments"), argparse of Python 3.3 and later returns command=None.
NoCommand(v) == { UsageError, [NoArgs EXCEPT !.verbose = v] }

RECURSIVE ParseTop(_, _)
\* lines 50-58: the top-level parser
ParseTop(rest, v) ==
    IF rest = <<>> THEN NoCommand(v)
    ELSE IF Head(rest) \in {OPT_V, OPT_VERBOSE} THEN ParseTop(Tail(rest), TRUE)
    ELSE IF IsOption(Head(rest)) THEN { UsageError }
    ELSE IF Head(rest) = BINARY THEN ParseBinary(Tail(rest), v)
    ELSE { UsageError }

\* the Namespaces parse_args(argv[1:]) can return, or the usage error
GetArgs(a) == ParseTop(Tail(a), FALSE)

-----------------------------------------------------------------------------
(* parse_dsc, lines 15-31 *)

\* a slip: the test of line 22 without "found and"
IsRowAnywhere(f, line) == StartsWith(line, <<" ">>)

\* line 22: the test of a data row
IsRow(f, line) == f /\ StartsWith(line, <<" ">>)

\* a slip: a header test on a shorter token, 'Checksums-Sha'
IsHeaderPrefix(f, line) == ~f /\ StartsWith(line, SubSeq(HEADER, 1, 13))

\* line 29: the test of the section header
IsHeader(f, line) == ~f /\ StartsWith(line, HEADER)

\* a slip: the first three tokens taken (data[:3]), the others dropped
RowFirstThree(dir, line) ==
    LET data == Split(line)
    IN  IF Len(data) < 3 THEN [err |-> "IndexError", entry |-> <<>>]
        ELSE [err |-> "",
              entry |-> [sha256 |-> data[1], size |-> data[2],
                         name |-> data[3], path |-> Join(dir, data[3])]]

\* a slip: the path joined from data[0], the checksum, instead of data[2]
RowJoinsChecksum(dir, line) ==
    LET data == Split(line)
    IN  IF Len(data) < 3 THEN [err |-> "IndexError", entry |-> <<>>]
        ELSE LET full == Append(data, Join(dir, data[1]))
             IN  IF Len(full) # 4 THEN [err |-> "TypeError", entry |-> <<>>]
                 ELSE [err |-> "",
                       entry |-> [sha256 |-> full[1], size |-> full[2],
                                  name |-> full[3], path |-> full[4]]]

\* lines 23-25: data[2] raises IndexError on fewer than three tokens,
\* SourceFile(*data) raises TypeError unless data holds four values
Row(dir, line) ==
    LET data == Split(line)
    IN  IF Len(data) < 3 THEN [err |-> "IndexError", entry |-> <<>>]
        ELSE LET full == Append(data, Join(dir, data[3]))
             IN  IF Len(full) # 4 THEN [err |-> "TypeError", entry |-> <<>>]
                 ELSE [err |-> "",
                       entry |-> [sha256 |-> full[1], size |-> full[2],
                                  name |-> full[3], path |-> full[4]]]

\* a slip: files.insert(0, ...) instead of files.append
AddFileFirst(fs, entry) == <<entry>> \o fs

\* line 25: files.append
AddFile(fs, entry) == Append(fs, entry)

\* an exception leaves parse_dsc: nothing is returned
Raise(e) ==
    /\ pc' = "raised"
    /\ error' = e
    /\ UNCHANGED <<result, exitcode>>

\* lines 16-20
ParseOpen ==
    /\ pc = "open"
    /\ IF ~file_exists
       THEN /\ Raise("IOError")
            /\ UNCHANGED <<there, lines, idx, found, files>>
       ELSE /\ files' = <<>>
            /\ lines' = SplitLines(content)
            /\ there' = Dirname(dsc_path)
            /\ found' = FALSE
            /\ idx' = 1
            /\ pc' = "loop"
            /\ UNCHANGED <<result, error, exitcode>>
    /\ UNCHANGED <<argv, file_exists, content, args, dsc_path, location, verbose>>

\* lines 22-25, then line 29 with found true
ParseRow ==
    /\ pc = "loop"
    /\ idx <= Len(lines)
    /\ IsRow(found, lines[idx])
    /\ LET r == Row(there, lines[idx])
       IN  IF r.err # ""
           THEN /\ Raise(r.err)
                /\ UNCHANGED <<idx, files>>
           ELSE /\ files' = AddFile(files, r.entry)
                /\ idx' = idx + 1
                /\ UNCHANGED <<pc, result, error, exitcode>>
    /\ UNCHANGED <<argv, file_exists, content, args, dsc_path, location, verbose,
                   there, lines, found>>

\* lines 26-28 and 31: the first line of the section that is no row ends the loop
ParseBreak ==
    /\ pc = "loop"
    /\ idx <= Len(lines)
    /\ found
    /\ ~IsRow(found, lines[idx])
    /\ pc' = "parsed"
    /\ result' = [returned |-> TRUE, value |-> files]
    /\ UNCHANGED <<argv, file_exists, content, args, dsc_path, location, verbose,
                   there, lines, idx, found, files, error, exitcode>>

\* lines 22, 26 (both false) and 29-30: a line before the section
ParseScan ==
    /\ pc = "loop"
    /\ idx <= Len(lines)
    /\ ~found
    /\ found' = IsHeader(found, lines[idx])
    /\ idx' = idx + 1
    /\ UNCHANGED <<argv, file_exists, content, pc, args, dsc_path, location, verbose,
                   there, lines, files, result, error, exitcode>>

\* lines 21 and 31: the lines are exhausted
ParseReturn ==
    /\ pc = "loop"
    /\ idx > Len(lines)
    /\ pc' = "parsed"
    /\ result' = [returned |-> TRUE, value |-> files]
    /\ UNCHANGED <<argv, file_exists, content, args, dsc_path, location, verbose,
                   there, lines, idx, found, files, error, exitcode>>

-----------------------------------------------------------------------------
(* main and build_binary, lines 34-45 and 62-63 *)

\* a slip: the verbose flag returned as the exit code
BuildBinaryCodeVerbose(source_files, loc, v) == IF v THEN 1 ELSE 0

\* line 36: build_binary's return value
BuildBinaryCode(source_files, loc, v) == 0

\* lines 41-42
MainGetArgs ==
    /\ pc = "main"
    /\ \E r \in GetArgs(argv) :
          IF r.err
          THEN /\ pc' = "exit"
               /\ error' = "UsageError"
               /\ exitcode' = 2
               /\ UNCHANGED args
          ELSE /\ pc' = "dispatch"
               /\ args' = r
               /\ UNCHANGED <<error, exitcode>>
    /\ UNCHANGED <<argv, file_exists, content, dsc_path, location, verbose,
                   there, lines, idx, found, files, result>>

\* lines 43-44 and 35: the binary sub-command calls build_binary, which calls
\* parse_dsc
MainBinary ==
    /\ pc = "dispatch"
    /\ args.command = BINARY
    /\ dsc_path' = args.dsc
    /\ location' = args.location
    /\ verbose' = args.verbose
    /\ pc' = "open"
    /\ UNCHANGED <<argv, file_exists, content, args, there, lines, idx, found,
                   files, result, error, exitcode>>

\* lines 41, 43 (false) and 45, then line 63
MainNoCommand ==
    /\ pc = "dispatch"
    /\ args.command # BINARY
    /\ pc' = "exit"
    /\ exitcode' = 0
    /\ UNCHANGED <<argv, file_exists, content, args, dsc_path, location, verbose,
                   there, lines, idx, found, files, result, error>>

\* lines 35-36, 44-45 and 63: parse_dsc returned
BuildBinaryReturn ==
    /\ pc = "parsed"
    /\ pc' = "exit"
    /\ exitcode' = BuildBinaryCode(result.value, location, verbose)
    /\ UNCHANGED <<argv, file_exists, content, args, dsc_path, location, verbose,
                   there, lines, idx, found, files, result, error>>

\* a slip: main catches the exception and returns its initial exitcode
PropagateSwallowed ==
    /\ pc = "raised"
    /\ pc' = "exit"
    /\ exitcode' = 0
    /\ UNCHANGED <<argv, file_exists, content, args, dsc_path, location, verbose,
                   there, lines, idx, found, files, result, error>>

\* no handler in parse_dsc, build_binary or main: the interpreter prints the
\* traceback and exits with status 1
Propagate ==
    /\ pc = "raised"
    /\ pc' = "exit"
    /\ exitcode' = 1
    /\ UNCHANGED <<argv, file_exists, content, args, dsc_path, location, verbose,
                   there, lines, idx, found, files, result, error>>

-----------------------------------------------------------------------------

NoResult == [returned |-> FALSE, value |-> <<>>]

\* line 63: sys.exit(main(sys.argv)), on a file system that holds the control
\* file or not
Init ==
    /\ argv \in BinaryArgv \cup OtherArgv
    /\ file_exists \in (IF argv \in BinaryArgv THEN BOOLEAN ELSE {FALSE})
    /\ content \in (IF file_exists THEN { JoinLines(ls) : ls \in FileLines } ELSE { <<>> })
    /\ pc = "main"
    /\ args = NoArgs
    /\ dsc_path = <<>>
    /\ location = <<>>
    /\ verbose = FALSE
    /\ there = <<>>
    /\ lines = <<>>
    /\ idx = 1
    /\ found = FALSE
    /\ files = <<>>
    /\ result = NoResult
    /\ error = ""
    /\ exitcode = -1

Next ==
    \/ MainGetArgs
    \/ MainBinary
    \/ MainNoCommand
    \/ ParseOpen
    \/ ParseRow
    \/ ParseBreak
    \/ ParseScan
    \/ ParseReturn
    \/ BuildBinaryReturn
    \/ Propagate

Spec == Init /\ [][Next]_vars

-----------------------------------------------------------------------------
(* The vocabulary of the properties *)

\* the file was opened and read: lines holds its lines
Opened ==
    /\ file_exists
    /\ args.command = BINARY
    /\ pc \in {"loop", "parsed", "raised", "exit"}

\* parse_dsc is over: it returned or it raised
Finished == pc \in {"parsed", "raised", "exit"}

\* the position of the first line that starts with the header token, 0 if none
HeaderIndex(ls) ==
    IF \E k \in 1..Len(ls) : StartsWith(ls[k], HEADER)
    THEN CHOOSE k \in 1..Len(ls) :
            /\ StartsWith(ls[k], HEADER)
            /\ \A m \in 1..(k - 1) : ~StartsWith(ls[m], HEADER)
    ELSE 0

\* the position of the last line of the run of lines that follow position h
\* and start with one of the characters of indent
RunEnd(ls, h, indent) ==
    CHOOSE e \in h..Len(ls) :
        /\ \A m \in (h + 1)..e : ls[m] # <<>> /\ ls[m][1] \in indent
        /\ e < Len(ls) => (ls[e + 1] = <<>> \/ ls[e + 1][1] \notin indent)

\* the rows of the section: the lines after the header up to the first line
\* that does not start with a character of indent
SectionRows(ls, indent) ==
    IF HeaderIndex(ls) = 0 THEN <<>>
    ELSE SubSeq(ls, HeaderIndex(ls) + 1, RunEnd(ls, HeaderIndex(ls), indent))

\* the rows as the control files of dpkg-source write them: one leading space
Rows(ls) == SectionRows(ls, {" "})

WellFormedRow(line) == Len(Split(line)) = 3

\* the spec's FormatError and NotFoundError, as the exceptions Python raises
FormatError == {"IndexError", "TypeError"}
NotFoundError == {"IOError"}

\* os.path.basename (posixpath)
Basename(p) == SubSeq(p, LastSlash(p) + 1, Len(p))

-----------------------------------------------------------------------------
(* Properties *)

C3_WhitespaceRowsAreRows ==
    (Opened /\ pc = "parsed")
    => Len(result.value) = Len(SectionRows(lines, {" ", "\t"}))

\* C4, as stated: an invocation that names no sub-command ends with a usage
\* error and a non-zero exit code, never with exit code 0.
C4_NoCommandIsUsageError ==
    (/\ pc = "exit"
     /\ \A k \in 2..Len(argv) : argv[k] \in {OPT_V, OPT_VERBOSE})
    => /\ error = "UsageError"
       /\ exitcode # 0

\* C5, as stated: the base name of every entry's path is the entry's name.
C5_BasenameIsName ==
    \A k \in 1..Len(files) : Basename(files[k].path) = files[k].name

\* C6: every entry's path is the parent directory of the control-file path
\* joined with that entry's own name, the same directory for every entry.
C6_PathIsDirJoinName ==
    /\ \A k \in 1..Len(files) :
          files[k].path = Join(Dirname(dsc_path), files[k].name)
    /\ \A k \in 1..Len(result.value) :
          result.value[k].path = Join(Dirname(dsc_path), result.value[k].name)

\* two entries with different names were returned for a control file in a
\* directory
C6_Witness ==
    /\ pc = "parsed"
    /\ Dirname(dsc_path) # <<>>
    /\ Len(result.value) >= 2
    /\ result.value[1].name # result.value[2].name
    /\ result.value[1].path # result.value[1].name

\* C7: a control file in which no line starts the section yields the empty
\* sequence and no error, whatever its lines are.
C7_NoSectionIsEmpty ==
    (Opened /\ Finished /\ HeaderIndex(lines) = 0)
    => /\ result = [returned |-> TRUE, value |-> <<>>]
       /\ error = ""

\* a file without the header that holds indented lines of two and of four
\* tokens was parsed to the empty sequence
C7_Witness ==
    /\ Opened
    /\ pc = "parsed"
    /\ HeaderIndex(lines) = 0
    /\ \E k \in 1..Len(lines) : lines[k] = ShortRow
    /\ \E k \in 1..Len(lines) : lines[k] = LongRow
    /\ result.value = <<>>

\* the outcome of the binary sub-command as a function of the control file
\* alone: the exit status and the exception
ExpectedOutcome(exists, ls) ==
    IF ~exists THEN <<1, "IOError">>
    ELSE IF \A k \in 1..Len(Rows(ls)) : WellFormedRow(Rows(ls)[k]) THEN <<0, "">>
    ELSE LET bad == CHOOSE k \in 1..Len(Rows(ls)) :
                       /\ ~WellFormedRow(Rows(ls)[k])
                       /\ \A m \in 1..(k - 1) : WellFormedRow(Rows(ls)[m])
         IN  IF Len(Split(Rows(ls)[bad])) < 3 THEN <<1, "IndexError">>
             ELSE <<1, "TypeError">>

\* C8: the binary sub-command ends with exit code 0 whenever parse_dsc
\* returned, and its outcome is a function of the control file alone: it is
\* the same whatever the verbose flag and the location argument are.
C8_OutcomeIgnoresVerboseAndLocation ==
    (pc = "exit" /\ args.command = BINARY)
    => /\ result.returned => exitcode = 0
       /\ <<exitcode, error>> = ExpectedOutcome(file_exists, lines)

\* a verbose run with a location in the root ended with exit code 0 after
\* parse_dsc returned entries
C8_Witness ==
    /\ pc = "exit"
    /\ args.command = BINARY
    /\ verbose
    /\ location = <<"/","t">>
    /\ Len(result.value) >= 1
    /\ exitcode = 0

\* C9: a missing control file ends the binary sub-command with the
\* NotFoundError of open(), unhandled, and a non-zero exit code; no run in
\* which parse_dsc raised ends with exit code 0.
C9_ParseErrorsPropagate ==
    /\ (pc = "exit" /\ args.command = BINARY /\ ~file_exists)
       => (error \in NotFoundError /\ exitcode # 0 /\ result = NoResult)
    /\ (pc = "exit" /\ error # "") => exitcode # 0
    /\ (pc = "raised") => (error # "" /\ exitcode # 0 /\ result = NoResult)

\* the binary sub-command on a missing file ended with status 1
C9_Witness ==
    /\ pc = "exit"
    /\ args.command = BINARY
    /\ ~file_exists
    /\ error = "IOError"
    /\ exitcode = 1

\* C10: the lines before the header add no entry and raise no error, however
\* they are indented and however many tokens they hold, and the header line
\* itself adds no entry, whatever follows the header token on it.
C10_LinesUpToHeaderAddNothing ==
    /\ (Opened /\ pc = "loop" /\ HeaderIndex(lines) = 0) => files = <<>>
    /\ (Opened /\ pc = "loop" /\ HeaderIndex(lines) > 0 /\ idx <= HeaderIndex(lines) + 1)
       => files = <<>>
    /\ (Opened /\ pc = "raised") => (found /\ idx > HeaderIndex(lines))

\* the loop stands right after a header line that holds three tokens and
\* follows an indented line of three tokens and one of two
C10_Witness ==
    /\ Opened
    /\ pc = "loop"
    /\ lines = <<Row1, HeaderLineMore, ShortRow>>
    /\ idx = 3
    /\ found
    /\ files = <<>>

=============================================================================
